---- MODULE Spec2Model ----
(***************************************************************************)
(* Session controllers of the two experiment runners of the repository:    *)
(*   src/tarefa3/tarefa3.py  Contextual Cueing Task (CCT), class Experiment *)
(*   src/tarefa4/tarefa4.py  Iowa Gambling Task (IGT), IowaGamblingTask     *)
(*                                                                         *)
(* Each program is a single-threaded pygame loop.  The environment (the    *)
(* participant and the wall clock) posts input events to the pygame event  *)
(* queue and advances time; one action of the model is one pass of a       *)
(* handler over the whole batch returned by one pygame.event.get() call.   *)
(* Time is counted in ticks of half a second (a multiple of 1 ms, so the   *)
(* round(., 3) of the recorded reaction times is exact on it).             *)
(* The experiment sizes are scaled down from the source's values; the      *)
(* pixel geometry is the source's.                                         *)
(***************************************************************************)
EXTENDS Integers, Sequences, FiniteSets, TLC

VARIABLES
    experiment,   \* the Experiment object of tarefa3.py (CCT)
    experimento,  \* the IowaGamblingTask object of tarefa4.py (IGT)
    events,       \* pygame's event queue: posted, not yet polled
    mouse,        \* pygame.mouse.get_pos(): where the pointer is now
    now,          \* time.time(), in ticks
    pc,           \* the process: "running", "exited" (sys.exit), "returned"
                  \* (executar returned), "crashed" (uncaught exception)
    persisted,    \* the trial logs written so far by save_results / _salvar_dados
    retorno       \* what executar returned: "True" or "False", "None" before it has

vars == <<experiment, experimento, events, mouse, now, pc, persisted, retorno>>

(***************************************************************************)
(* Bounds of the model.                                                    *)
(***************************************************************************)
MaxQueue == 2         \* events the queue holds between two polls
MaxTime == 2          \* last tick of the wall clock, sessions with any input
MaxSessionTime == 5   \* last tick of the wall clock, sessions of a willing participant
MaxTempo == 4         \* last tick of the wall clock, IGT sessions
MaxLog == 4           \* records of a trial log handed to _calcular_resultados
MaxTempoLive == 2     \* last tick of the wall clock outside the feedback, IGT sessions
                      \* in which time passes

(***************************************************************************)
(* tarefa3.py: constants (lines 28-58).                                    *)
(***************************************************************************)
WIDTH == 800
HEIGHT == 600
GRID_SIZE == 2               \* 6 in the source
CELL_SIZE == 80
NUM_REPEATED_CONFIGS == 1    \* 12 in the source
NUM_NOVEL_CONFIGS == 1       \* 12 in the source
NUM_BLOCKS == 2              \* 5 in the source
NUM_ITEMS == 2               \* 12 in the source
STIM_SIZE == 30
GRID_START_X == (WIDTH - GRID_SIZE * CELL_SIZE) \div 2
GRID_START_Y == (HEIGHT - GRID_SIZE * CELL_SIZE) \div 2
fixation_duration == 1       \* 0.5 s

\* Python's None, where an attribute holds it or an object
None == [type |-> "NoneType"]

(***************************************************************************)
(* Input events (pygame.event).                                            *)
(***************************************************************************)
Quit == [type |-> "QUIT"]
KeyDown(k) == [type |-> "KEYDOWN", key |-> k]
MouseDown(b, p) == [type |-> "MOUSEBUTTONDOWN", button |-> b, pos |-> p]

(***************************************************************************)
(* class Stimulus                                                          *)
(***************************************************************************)
Stimulus(stim_type, position, rotation) ==
    [stim_type |-> stim_type,
     position |-> position,
     rotation |-> rotation,
     screen_pos |-> <<GRID_START_X + position[1] * CELL_SIZE + CELL_SIZE \div 2,
                      GRID_START_Y + position[2] * CELL_SIZE + CELL_SIZE \div 2>>]

\* a variant of contains_point: the square around the circle is the hit region
contains_point_square(stim, point) ==
    LET x == point[1]
        y == point[2]
        center_x == stim.screen_pos[1]
        center_y == stim.screen_pos[2]
        radius == STIM_SIZE \div 2
    IN  /\ (x - center_x) * (x - center_x) <= radius * radius
        /\ (y - center_y) * (y - center_y) <= radius * radius

contains_point(stim, point) ==
    LET x == point[1]
        y == point[2]
        center_x == stim.screen_pos[1]
        center_y == stim.screen_pos[2]
        radius == STIM_SIZE \div 2
    IN  (x - center_x) * (x - center_x) + (y - center_y) * (y - center_y)
            <= radius * radius

(***************************************************************************)
(* class Configuration                                                     *)
(***************************************************************************)
grid_positions == {<<x, y>> : x \in 0..(GRID_SIZE - 1), y \in 0..(GRID_SIZE - 1)}

\* a variant of Samples: the cells are drawn with replacement
Samples_with_replacement(cells) == [1..NUM_ITEMS -> cells]

\* random.sample(grid_positions, NUM_ITEMS): NUM_ITEMS distinct cells, in order
Samples(cells) ==
    {sel \in [1..NUM_ITEMS -> cells] :
        \A i, j \in 1..NUM_ITEMS : i # j => sel[i] # sel[j]}

ROTATIONS == {0, 90, 180, 270}

\* Configuration.generate, for one outcome of the random draws
generate(config_id, is_repeated, selected_positions, rotations) ==
    LET target == Stimulus("T", selected_positions[1], rotations[1])
    IN  [config_id |-> config_id,
         is_repeated |-> is_repeated,
         target |-> target,
         stimuli |-> [i \in 1..NUM_ITEMS |->
                        IF i = 1 THEN target
                        ELSE Stimulus("L", selected_positions[i], rotations[i])]]

\* the outcomes of Configuration(config_id, is_repeated) with the cells and the
\* rotations drawn from the given sets
Configuration(config_id, is_repeated, cells, rots) ==
    {generate(config_id, is_repeated, sel, rot) :
        sel \in Samples(cells), rot \in [1..NUM_ITEMS -> rots]}

(***************************************************************************)
(* The random draws of a session.  Configuration.generate draws the cells  *)
(* with random.sample and every rotation with random.choice; the session   *)
(* specifications let the draws range over DrawCells and DrawRotations.    *)
(***************************************************************************)
DrawCells == {<<0, 0>>, <<1, 0>>}
DrawRotations == {0, 90}

NovelConfigurations == Configuration(-1, FALSE, DrawCells, DrawRotations)

(***************************************************************************)
(* class Experiment.  The variable experiment holds the attributes of the  *)
(* object.  While a handler runs, the value s it works on carries them     *)
(* plus the handler's frame: waiting (the flag of the blocking loops),     *)
(* exited (sys.exit() was called) and saved (save_results was called, and  *)
(* then saved_log is the trial log it wrote).                              *)
(***************************************************************************)
\* Experiment.__init__ followed by setup_experiment
Experiment(repeated) ==
    [repeated_configs |-> repeated,
     trial_results |-> <<>>,
     current_block |-> 0,
     current_trial |-> 0,
     total_trials |-> (NUM_REPEATED_CONFIGS + NUM_NOVEL_CONFIGS) * NUM_BLOCKS,
     state |-> "welcome",
     current_config |-> None,
     trial_start_time |-> 0,
     fixation_start_time |-> 0]

\* the lists setup_experiment can build: [Configuration(i, True) for i in range(..)]
RepeatedConfigs ==
    {rc \in [1..NUM_REPEATED_CONFIGS ->
                UNION {Configuration(i, TRUE, DrawCells, DrawRotations) :
                         i \in 0..(NUM_REPEATED_CONFIGS - 1)}] :
        \A i \in 1..NUM_REPEATED_CONFIGS : rc[i].config_id = i - 1}

Attributes == DOMAIN Experiment(<<>>)

Frame(self) == self @@ [waiting |-> TRUE, exited |-> FALSE, saved |-> FALSE, saved_log |-> <<>>]

Object(s) == [a \in Attributes |-> s[a]]

\* a variant of record_trial: the new record goes to the front of the log
record_trial_front(s, response_time, is_correct) ==
    [s EXCEPT !.trial_results =
        <<[block |-> s.current_block + 1,
           trial |-> s.current_trial + 1,
           configuration_id |-> s.current_config.config_id,
           is_repeated |-> s.current_config.is_repeated,
           response_time |-> response_time,
           is_correct |-> is_correct,
           target_position |-> s.current_config.target.position]>> \o @]

record_trial(s, response_time, is_correct) ==
    [s EXCEPT !.trial_results = Append(@,
        [block |-> s.current_block + 1,
         trial |-> s.current_trial + 1,
         configuration_id |-> s.current_config.config_id,
         is_repeated |-> s.current_config.is_repeated,
         response_time |-> response_time,
         is_correct |-> is_correct,
         target_position |-> s.current_config.target.position])]

next_trial(s) ==
    LET t == s.current_trial + 1
    IN  IF t >= NUM_REPEATED_CONFIGS + NUM_NOVEL_CONFIGS
        THEN [s EXCEPT !.current_trial = 0,
                       !.current_block = @ + 1,
                       !.state = IF s.current_block + 1 < NUM_BLOCKS
                                 THEN "break" ELSE "end"]
        ELSE [s EXCEPT !.current_trial = t, !.state = "fixation"]

\* sys.exit() after pygame.quit()
sys_exit(s) == [s EXCEPT !.exited = TRUE]

\* save_results: the trial log goes to the CSV file; the analysis that follows
\* runs inside try/except and changes nothing of the session
save_results(s) == [s EXCEPT !.saved = TRUE, !.saved_log = s.trial_results]

\* the first stimulus of the list that contains the point, 0 when none does
\* (the for ... break of run_trial)
FirstHit(stimuli, point) ==
    LET hits == {i \in 1..Len(stimuli) : contains_point(stimuli[i], point)}
    IN  IF hits = {} THEN 0 ELSE CHOOSE i \in hits : \A j \in hits : i <= j

\* a variant of run_trial_event: a click on any item counts as correct
run_trial_event_any_item(s, event, t) ==
    IF event.type = "QUIT" THEN sys_exit(s)
    ELSE IF event.type = "KEYDOWN"
    THEN IF event.key = "K_ESCAPE" THEN [s EXCEPT !.state = "end"] ELSE s
    ELSE IF event.type = "MOUSEBUTTONDOWN"
    THEN IF event.button = 1
         THEN IF FirstHit(s.current_config.stimuli, event.pos) # 0
              THEN next_trial(record_trial(s, t - s.trial_start_time, TRUE))
              ELSE s
         ELSE s
    ELSE s

\* run_trial: the body of "for event in pygame.event.get()" for one event
run_trial_event(s, event, t) ==
    IF event.type = "QUIT" THEN sys_exit(s)
    ELSE IF event.type = "KEYDOWN"
    THEN IF event.key = "K_ESCAPE" THEN [s EXCEPT !.state = "end"] ELSE s
    ELSE IF event.type = "MOUSEBUTTONDOWN"
    THEN IF event.button = 1
         THEN IF contains_point(s.current_config.target, event.pos)
              THEN next_trial(record_trial(s, t - s.trial_start_time, TRUE))
              ELSE IF FirstHit(s.current_config.stimuli, event.pos) # 0
                   THEN next_trial(record_trial(s, t - s.trial_start_time, FALSE))
                   ELSE s
         ELSE s
    ELSE s

\* show_welcome: the body of its event loop for one event
show_welcome_event(s, event) ==
    IF event.type = "QUIT" THEN sys_exit(s)
    ELSE IF event.type = "KEYDOWN"
    THEN IF event.key = "K_SPACE" THEN [s EXCEPT !.waiting = FALSE]
         ELSE IF event.key = "K_ESCAPE" THEN sys_exit(s)
         ELSE s
    ELSE s

\* show_break: the body of its event loop for one event
show_break_event(s, event) ==
    IF event.type = "QUIT" THEN sys_exit(s)
    ELSE IF event.type = "KEYDOWN"
    THEN IF event.key = "K_SPACE" THEN [s EXCEPT !.waiting = FALSE]
         ELSE IF event.key = "K_ESCAPE"
              THEN [s EXCEPT !.state = "end", !.waiting = FALSE]
         ELSE s
    ELSE s

\* show_end: the body of its event loop for one event
show_end_event(s, event) ==
    IF event.type = "QUIT" THEN sys_exit(s)
    ELSE IF event.type = "KEYDOWN"
    THEN IF event.key = "K_SPACE" \/ event.key = "K_ESCAPE"
         THEN [s EXCEPT !.waiting = FALSE]
         ELSE s
    ELSE s

\* the handler named by the phase, for one event polled at time t
HandleEvent(phase, s, event, t) ==
    CASE phase = "welcome" -> show_welcome_event(s, event)
      [] phase = "trial" -> run_trial_event(s, event, t)
      [] phase = "break" -> show_break_event(s, event)
      [] phase = "end" -> show_end_event(s, event)

\* "for event in pygame.event.get():" over the batch; sys.exit() ends it
RECURSIVE ForEvents(_, _, _, _)
ForEvents(phase, s, batch, t) ==
    IF batch = <<>> \/ s.exited THEN s
    ELSE ForEvents(phase, HandleEvent(phase, s, Head(batch), t), Tail(batch), t)

\* show_welcome: one pass of "while waiting", then the code after the loop
show_welcome(s, batch) ==
    LET r == ForEvents("welcome", s, batch, 0)
    IN  IF r.exited \/ r.waiting THEN r ELSE [r EXCEPT !.state = "fixation"]

\* a variant of prepare_trial: a repeated configuration is generated anew each
\* time it is presented
prepare_trial_regenerates(s, coin, novel, t) ==
    LET config ==
            IF coin \/ s.current_trial >= NUM_REPEATED_CONFIGS
            THEN novel
            ELSE [novel EXCEPT !.config_id = s.current_trial % NUM_REPEATED_CONFIGS,
                               !.is_repeated = TRUE]
    IN  [s EXCEPT !.current_config = config, !.trial_start_time = t]

\* a variant of prepare_trial: the coin alone decides, whatever the trial index
prepare_trial_any_index(s, coin, novel, t) ==
    LET config ==
            IF coin
            THEN novel
            ELSE s.repeated_configs[(s.current_trial % NUM_REPEATED_CONFIGS) + 1]
    IN  [s EXCEPT !.current_config = config, !.trial_start_time = t]

\* prepare_trial, for one outcome of random.random() < 0.5 and, for a novel
\* trial, of Configuration(-1, False)
prepare_trial(s, coin, novel, t) ==
    LET config ==
            IF coin \/ s.current_trial >= NUM_REPEATED_CONFIGS
            THEN novel
            ELSE s.repeated_configs[(s.current_trial % NUM_REPEATED_CONFIGS) + 1]
    IN  [s EXCEPT !.current_config = config, !.trial_start_time = t]

\* a variant of show_fixation: the fixation timestamp is not reset on expiry
show_fixation_keeps_start(s, coin, novel, t) ==
    LET s1 == IF s.fixation_start_time = 0
              THEN [s EXCEPT !.fixation_start_time = t] ELSE s
    IN  IF t - s1.fixation_start_time >= fixation_duration
        THEN prepare_trial([s1 EXCEPT !.state = "trial"], coin, novel, t)
        ELSE s1

\* show_fixation
show_fixation(s, coin, novel, t) ==
    LET s1 == IF s.fixation_start_time = 0
              THEN [s EXCEPT !.fixation_start_time = t] ELSE s
    IN  IF t - s1.fixation_start_time >= fixation_duration
        THEN prepare_trial([s1 EXCEPT !.fixation_start_time = 0, !.state = "trial"],
                           coin, novel, t)
        ELSE s1

\* run_trial
run_trial(s, batch, t) == ForEvents("trial", s, batch, t)

\* a variant of show_break: the state set in the loop is kept after it
show_break_keeps_state(s, batch) ==
    LET r == ForEvents("break", s, batch, 0)
    IN  IF r.exited \/ r.waiting \/ r.state = "end" THEN r
        ELSE [r EXCEPT !.state = "fixation"]

\* show_break: one pass of "while waiting", then the code after the loop
show_break(s, batch) ==
    LET r == ForEvents("break", s, batch, 0)
    IN  IF r.exited \/ r.waiting THEN r ELSE [r EXCEPT !.state = "fixation"]

\* show_end: one pass of "while waiting", then the code after the loop
show_end(s, batch) ==
    LET r == ForEvents("end", s, batch, 0)
    IN  IF r.exited \/ r.waiting THEN r ELSE sys_exit(save_results(r))

(***************************************************************************)
(* The environment of a CCT session: the participant's input.              *)
(***************************************************************************)
\* the screen points the pointer clicks at, both in cell (0, 0): OnItem lies on
\* the rim of the cell's hit circle, OffItem outside the circle and inside the
\* square around it
CellCentre(cell) == Stimulus("L", cell, 0).screen_pos

OnItem == <<CellCentre(<<0, 0>>)[1] + STIM_SIZE \div 2, CellCentre(<<0, 0>>)[2]>>

OffItem == <<CellCentre(<<0, 0>>)[1] + 11, CellCentre(<<0, 0>>)[2] + 11>>

\* any input: window close, ESC, SPACE, left and right clicks
CCTEvents ==
    {Quit, KeyDown("K_ESCAPE"), KeyDown("K_SPACE"),
     MouseDown(1, OnItem), MouseDown(1, OffItem), MouseDown(3, OnItem)}

\* the input of a willing participant: SPACE and left clicks on an item
WillingEvents == {KeyDown("K_SPACE"), MouseDown(1, OnItem)}

NoIGT == [estado |-> "nao_criado"]

InitCCT ==
    /\ experiment \in {Experiment(rc) : rc \in RepeatedConfigs}
    /\ experimento = NoIGT
    /\ events = <<>>
    /\ mouse = <<0, 0>>
    /\ now = 1
    /\ pc = "running"
    /\ persisted = <<>>
    /\ retorno = "None"

\* an input event reaches the queue
Post(alphabet) ==
    /\ pc = "running"
    /\ Len(events) < MaxQueue
    /\ \E event \in alphabet : events' = Append(events, event)
    /\ UNCHANGED <<experiment, experimento, mouse, now, pc, persisted, retorno>>

\* the wall clock advances
Tick(limit) ==
    /\ pc = "running"
    /\ now < limit
    /\ now' = now + 1
    /\ UNCHANGED <<experiment, experimento, events, mouse, pc, persisted, retorno>>

\* what a handler that polled the queue leaves behind: r is the session value
\* at its end
Handled(r) ==
    /\ experiment' = Object(r)
    /\ events' = <<>>
    /\ pc' = IF r.exited THEN "exited" ELSE pc
    /\ persisted' = IF r.saved THEN Append(persisted, r.saved_log) ELSE persisted
    /\ UNCHANGED <<experimento, mouse, now, retorno>>

(***************************************************************************)
(* Experiment.run: one action per branch of the main loop.                 *)
(***************************************************************************)
ShowWelcome ==
    /\ pc = "running"
    /\ experiment.state = "welcome"
    /\ Handled(show_welcome(Frame(experiment), events))

ShowFixation ==
    /\ pc = "running"
    /\ experiment.state = "fixation"
    /\ \E coin \in BOOLEAN, novel \in NovelConfigurations :
          experiment' = Object(show_fixation(Frame(experiment), coin, novel, now))
    /\ UNCHANGED <<experimento, events, mouse, now, pc, persisted, retorno>>

RunTrial ==
    /\ pc = "running"
    /\ experiment.state = "trial"
    /\ Handled(run_trial(Frame(experiment), events, now))

ShowBreak ==
    /\ pc = "running"
    /\ experiment.state = "break"
    /\ Handled(show_break(Frame(experiment), events))

ShowEnd ==
    /\ pc = "running"
    /\ experiment.state = "end"
    /\ Handled(show_end(Frame(experiment), events))

\* a session with any input
NextCCT ==
    \/ Post(CCTEvents)
    \/ Tick(MaxTime)
    \/ ShowWelcome
    \/ ShowFixation
    \/ RunTrial
    \/ ShowBreak
    \/ ShowEnd

SpecCCT == InitCCT /\ [][NextCCT]_vars

\* a longer session of a willing participant
NextCCTSession ==
    \/ Post(WillingEvents)
    \/ Tick(MaxSessionTime)
    \/ ShowWelcome
    \/ ShowFixation
    \/ RunTrial
    \/ ShowBreak
    \/ ShowEnd

SpecCCTSession == InitCCT /\ [][NextCCTSession]_vars

(***************************************************************************)
(* tarefa4.py: constants (lines 14-65).                                    *)
(***************************************************************************)
NUM_TENTATIVAS == 3          \* 100 in the source
NUM_BLOCOS == 2              \* 5 in the source
DINHEIRO_INICIAL == 2000
LARGURA_TELA == 1024
ALTURA_TELA == 768
DURACAO_FEEDBACK == 3        \* 1.5 s

\* BARALHO_A .. BARALHO_D; freq_perda in percent
BARALHOS ==
    [A |-> [recompensa |-> 100, freq_perda |-> 50,
            valores_perda |-> {150, 200, 250, 300, 350}],
     B |-> [recompensa |-> 100, freq_perda |-> 10, valores_perda |-> {1250}],
     C |-> [recompensa |-> 50, freq_perda |-> 50, valores_perda |-> {25, 50, 75}],
     D |-> [recompensa |-> 50, freq_perda |-> 10, valores_perda |-> {250}]]

Decks == DOMAIN BARALHOS

(***************************************************************************)
(* pygame.Rect                                                             *)
(***************************************************************************)
Rect(x, y, w, h) == [x |-> x, y |-> y, w |-> w, h |-> h]

collidepoint(rect, point) ==
    /\ rect.x <= point[1]
    /\ point[1] < rect.x + rect.w
    /\ rect.y <= point[2]
    /\ point[2] < rect.y + rect.h

(***************************************************************************)
(* class IowaGamblingTask                                                  *)
(***************************************************************************)
_criar_retangulos_baralhos(posicoes_baralhos) ==
    LET largura_baralho == 160
        altura_baralho == 240
        margem == 40
        largura_total == (largura_baralho * 4) + (margem * 3)
        inicio_x == (LARGURA_TELA - largura_total) \div 2
        y == (ALTURA_TELA - altura_baralho) \div 2
    IN  [baralho \in Decks |->
            LET i == CHOOSE k \in 1..Len(posicoes_baralhos) :
                        posicoes_baralhos[k] = baralho
            IN  Rect(inicio_x + (i - 1) * (largura_baralho + margem), y,
                     largura_baralho, altura_baralho)]

\* a variant of _gerar_resultados_baralhos: the net outcome forgets the loss
_gerar_resultados_baralhos_no_loss(perdas) ==
    [baralho \in Decks |->
        [i \in 1..NUM_TENTATIVAS |->
            LET recompensa == BARALHOS[baralho].recompensa
                perda == perdas[baralho][i]
            IN  <<recompensa, perda, recompensa>>]]

\* _gerar_resultados_baralhos, for one outcome of the random draws: perdas[b][i]
\* is the loss drawn for slot i of deck b, 0 when random.random() < freq_perda
\* came out false
_gerar_resultados_baralhos(perdas) ==
    [baralho \in Decks |->
        [i \in 1..NUM_TENTATIVAS |->
            LET recompensa == BARALHOS[baralho].recompensa
                perda == perdas[baralho][i]
            IN  <<recompensa, perda, recompensa - perda>>]]

\* __init__
IowaGamblingTask(posicoes_baralhos, perdas) ==
    [dinheiro |-> DINHEIRO_INICIAL,
     tentativa_atual |-> 0,
     dados |-> <<>>,
     tempo_inicio |-> 0,
     tempo_reacao |-> 0,
     posicoes_baralhos |-> posicoes_baralhos,
     retangulos_baralhos |-> _criar_retangulos_baralhos(posicoes_baralhos),
     resultados_baralhos |-> _gerar_resultados_baralhos(perdas),
     estado |-> "instrucoes",
     feedback_dados |-> None,
     tempo_inicio_feedback |-> 0,
     executando |-> TRUE,
     botao_continuar |-> None]

\* the draws in which no slot of any deck loses
NoLoss == [b \in Decks |-> [i \in 1..NUM_TENTATIVAS |-> 0]]

Atributos == DOMAIN IowaGamblingTask(<<"A", "B", "C", "D">>, NoLoss)

\* the frame of executar: crashed (an exception left it), saved and saved_log
\* (_salvar_dados ran, on that log), returned and retorno (it returned)
Quadro(self) ==
    self @@ [crashed |-> FALSE, saved |-> FALSE, saved_log |-> <<>>,
             returned |-> FALSE, retorno |-> "None"]

Objeto(s) == [a \in Atributos |-> s[a]]

\* a variant of _processar_escolha: the balance grows by the reward, the loss
\* is not taken off
_processar_escolha_gross(s, baralho, t) ==
    LET s1 == [s EXCEPT !.tempo_reacao = t - s.tempo_inicio, !.tempo_inicio = t]
    IN  IF s.tentativa_atual >= Len(s.resultados_baralhos[baralho])
        THEN [s1 EXCEPT !.crashed = TRUE]
        ELSE
        LET resultado == s.resultados_baralhos[baralho][s.tentativa_atual + 1]
            dados_tentativa ==
                [tentativa |-> s.tentativa_atual + 1,
                 baralho |-> baralho,
                 recompensa |-> resultado[1],
                 perda |-> resultado[2],
                 liquido |-> resultado[3],
                 dinheiro_total |-> s.dinheiro + resultado[1],
                 tempo_reacao |-> s1.tempo_reacao]
        IN  [s1 EXCEPT !.dinheiro = @ + resultado[1],
                       !.dados = Append(@, dados_tentativa),
                       !.feedback_dados = [baralho |-> baralho, recompensa |-> resultado[1],
                                            perda |-> resultado[2], liquido |-> resultado[3]],
                       !.tempo_inicio_feedback = t,
                       !.tentativa_atual = @ + 1,
                       !.estado = IF s.tentativa_atual + 1 >= NUM_TENTATIVAS
                                  THEN "resultados" ELSE "feedback"]

\* a variant of _processar_escolha: the results screen comes one pick late
_processar_escolha_late(s, baralho, t) ==
    LET s1 == [s EXCEPT !.tempo_reacao = t - s.tempo_inicio, !.tempo_inicio = t]
    IN  IF s.tentativa_atual >= Len(s.resultados_baralhos[baralho])
        THEN [s1 EXCEPT !.crashed = TRUE]
        ELSE
        LET resultado == s.resultados_baralhos[baralho][s.tentativa_atual + 1]
            dados_tentativa ==
                [tentativa |-> s.tentativa_atual + 1,
                 baralho |-> baralho,
                 recompensa |-> resultado[1],
                 perda |-> resultado[2],
                 liquido |-> resultado[3],
                 dinheiro_total |-> s.dinheiro + resultado[3],
                 tempo_reacao |-> s1.tempo_reacao]
        IN  [s1 EXCEPT !.dinheiro = @ + resultado[3],
                       !.dados = Append(@, dados_tentativa),
                       !.feedback_dados = [baralho |-> baralho, recompensa |-> resultado[1],
                                            perda |-> resultado[2], liquido |-> resultado[3]],
                       !.tempo_inicio_feedback = t,
                       !.tentativa_atual = @ + 1,
                       !.estado = IF s.tentativa_atual + 1 > NUM_TENTATIVAS
                                  THEN "resultados" ELSE "feedback"]

\* a variant of _processar_escolha: every pick takes the first tuple of the
\* deck's list
_processar_escolha_first_slot(s, baralho, t) ==
    LET s1 == [s EXCEPT !.tempo_reacao = t - s.tempo_inicio, !.tempo_inicio = t]
    IN  IF s.tentativa_atual >= Len(s.resultados_baralhos[baralho])
        THEN [s1 EXCEPT !.crashed = TRUE]
        ELSE
        LET resultado == s.resultados_baralhos[baralho][1]
            dados_tentativa ==
                [tentativa |-> s.tentativa_atual + 1,
                 baralho |-> baralho,
                 recompensa |-> resultado[1],
                 perda |-> resultado[2],
                 liquido |-> resultado[3],
                 dinheiro_total |-> s.dinheiro + resultado[3],
                 tempo_reacao |-> s1.tempo_reacao]
        IN  [s1 EXCEPT !.dinheiro = @ + resultado[3],
                       !.dados = Append(@, dados_tentativa),
                       !.feedback_dados = [baralho |-> baralho, recompensa |-> resultado[1],
                                            perda |-> resultado[2], liquido |-> resultado[3]],
                       !.tempo_inicio_feedback = t,
                       !.tentativa_atual = @ + 1,
                       !.estado = IF s.tentativa_atual + 1 >= NUM_TENTATIVAS
                                  THEN "resultados" ELSE "feedback"]

\* _processar_escolha at time t; indexing the schedule past its end raises
\* IndexError
_processar_escolha(s, baralho, t) ==
    LET s1 == [s EXCEPT !.tempo_reacao = t - s.tempo_inicio, !.tempo_inicio = t]
    IN  IF s.tentativa_atual >= Len(s.resultados_baralhos[baralho])
        THEN [s1 EXCEPT !.crashed = TRUE]
        ELSE
        LET resultado == s.resultados_baralhos[baralho][s.tentativa_atual + 1]
            recompensa == resultado[1]
            perda == resultado[2]
            liquido == resultado[3]
            dados_tentativa ==
                [tentativa |-> s.tentativa_atual + 1,
                 baralho |-> baralho,
                 recompensa |-> recompensa,
                 perda |-> perda,
                 liquido |-> liquido,
                 dinheiro_total |-> s.dinheiro + liquido,
                 tempo_reacao |-> s1.tempo_reacao]
        IN  [s1 EXCEPT !.dinheiro = @ + liquido,
                       !.dados = Append(@, dados_tentativa),
                       !.feedback_dados = [baralho |-> baralho, recompensa |-> recompensa,
                                            perda |-> perda, liquido |-> liquido],
                       !.tempo_inicio_feedback = t,
                       !.tentativa_atual = @ + 1,
                       !.estado = IF s.tentativa_atual + 1 >= NUM_TENTATIVAS
                                  THEN "resultados" ELSE "feedback"]

\* the first deck, in the order of the dict, whose rectangle holds the point;
\* "None" when none does
DeckAt(s, point) ==
    LET hits == {k \in 1..Len(s.posicoes_baralhos) :
                    collidepoint(s.retangulos_baralhos[s.posicoes_baralhos[k]], point)}
    IN  IF hits = {} THEN "None"
        ELSE s.posicoes_baralhos[CHOOSE k \in hits : \A j \in hits : k <= j]

_processar_eventos_instrucoes_evento(s, evento) ==
    IF evento.type = "QUIT" THEN [s EXCEPT !.executando = FALSE]
    ELSE IF evento.type = "KEYDOWN"
    THEN IF evento.key = "K_ESCAPE" THEN [s EXCEPT !.executando = FALSE]
         ELSE IF evento.key = "K_SPACE" \/ evento.key = "K_RETURN"
              THEN [s EXCEPT !.estado = "principal"]
         ELSE s
    ELSE IF evento.type = "MOUSEBUTTONDOWN"
    THEN IF s.botao_continuar # None /\ collidepoint(s.botao_continuar, evento.pos)
         THEN [s EXCEPT !.estado = "principal"]
         ELSE s
    ELSE s

\* mouse_pos is what pygame.mouse.get_pos() returns while the batch is handled
_processar_eventos_principal_evento(s, evento, mouse_pos, t) ==
    IF evento.type = "QUIT" THEN [s EXCEPT !.executando = FALSE]
    ELSE IF evento.type = "KEYDOWN"
    THEN IF evento.key = "K_ESCAPE" THEN [s EXCEPT !.executando = FALSE] ELSE s
    ELSE IF evento.type = "MOUSEBUTTONDOWN"
    THEN IF DeckAt(s, mouse_pos) # "None"
         THEN _processar_escolha(s, DeckAt(s, mouse_pos), t)
         ELSE s
    ELSE s

_processar_eventos_resultados_evento(s, evento) ==
    IF evento.type = "QUIT" THEN [s EXCEPT !.executando = FALSE]
    ELSE IF evento.type = "KEYDOWN"
    THEN IF evento.key = "K_ESCAPE" \/ evento.key = "K_SPACE"
         THEN [s EXCEPT !.executando = FALSE]
         ELSE s
    ELSE IF evento.type = "MOUSEBUTTONDOWN"
    THEN IF s.botao_continuar # None /\ collidepoint(s.botao_continuar, evento.pos)
         THEN [s EXCEPT !.executando = FALSE]
         ELSE s
    ELSE s

ProcessarEvento(fase, s, evento, mouse_pos, t) ==
    CASE fase = "instrucoes" -> _processar_eventos_instrucoes_evento(s, evento)
      [] fase = "principal" -> _processar_eventos_principal_evento(s, evento, mouse_pos, t)
      [] fase = "resultados" -> _processar_eventos_resultados_evento(s, evento)

\* "for evento in pygame.event.get():" over the batch; an exception ends it
RECURSIVE ParaEventos(_, _, _, _, _)
ParaEventos(fase, s, batch, mouse_pos, t) ==
    IF batch = <<>> \/ s.crashed THEN s
    ELSE ParaEventos(fase, ProcessarEvento(fase, s, Head(batch), mouse_pos, t),
                     Tail(batch), mouse_pos, t)

\* _desenhar_tela_instrucoes: places the button
_desenhar_tela_instrucoes(s) ==
    [s EXCEPT !.botao_continuar =
        Rect((LARGURA_TELA - 200) \div 2, ALTURA_TELA - 120, 200, 60)]

\* _desenhar_tela_principal: starts the reaction clock of the first trial
_desenhar_tela_principal(s, t) ==
    IF s.tentativa_atual = 0 /\ s.tempo_inicio = 0
    THEN [s EXCEPT !.tempo_inicio = t] ELSE s

\* a variant of _desenhar_feedback: the feedback stays one tick too long
_desenhar_feedback_late(s, t) ==
    IF s.feedback_dados # None
    THEN IF t - s.tempo_inicio_feedback > DURACAO_FEEDBACK
         THEN [s EXCEPT !.estado = "principal", !.feedback_dados = None]
         ELSE s
    ELSE s

_desenhar_feedback(s, t) ==
    IF s.feedback_dados # None
    THEN IF t - s.tempo_inicio_feedback >= DURACAO_FEEDBACK
         THEN [s EXCEPT !.estado = "principal", !.feedback_dados = None]
         ELSE s
    ELSE s

\* _desenhar_resultados: places the button
_desenhar_resultados(s) ==
    [s EXCEPT !.botao_continuar =
        Rect((LARGURA_TELA - 200) \div 2, ALTURA_TELA - 100, 200, 60)]

\* _salvar_dados: the trial log goes to the CSV file (SALVAR_DADOS is True)
_salvar_dados(s) == [s EXCEPT !.saved = TRUE, !.saved_log = s.dados]

\* executar: the code after the while loop
AposLoop(s) ==
    LET s1 == IF Len(s.dados) > 0 THEN _salvar_dados(s) ELSE s
    IN  [s1 EXCEPT !.returned = TRUE, !.retorno = IF Len(s.dados) = NUM_TENTATIVAS
                                                 THEN "True" ELSE "False"]

\* executar: one pass of the body of "while self.executando"
executar_corpo(s, batch, mouse_pos, t) ==
    CASE s.estado = "instrucoes" ->
            ParaEventos("instrucoes", _desenhar_tela_instrucoes(s), batch, mouse_pos, t)
      [] s.estado = "principal" ->
            ParaEventos("principal", _desenhar_tela_principal(s, t), batch, mouse_pos, t)
      [] s.estado = "feedback" -> _desenhar_feedback(s, t)
      [] s.estado = "resultados" ->
            ParaEventos("resultados", _desenhar_resultados(s), batch, mouse_pos, t)

\* executar: one pass of the loop, and the code after the loop when the pass
\* ended it
executar_passo(s, batch, mouse_pos, t) ==
    LET r == executar_corpo(s, batch, mouse_pos, t)
    IN  IF r.crashed \/ r.executando THEN r ELSE AposLoop(r)

(***************************************************************************)
(* _calcular_resultados.  The function reads the trial log and the module  *)
(* constants NUM_TENTATIVAS and NUM_BLOCOS, which the head of tarefa4.py   *)
(* leaves to the evaluator to set ("configuracoes personalizaveis"); they  *)
(* are parameters here.  erro is "None" when the function returns, and the *)
(* exception it raises otherwise.                                          *)
(***************************************************************************)
\* "for dado in self.dados: escolhas_baralho[baralho] = ... + 1"
RECURSIVE contar_escolhas(_, _)
contar_escolhas(dados, escolhas_baralho) ==
    IF dados = <<>> THEN escolhas_baralho
    ELSE contar_escolhas(Tail(dados),
                         [escolhas_baralho EXCEPT ![Head(dados).baralho] = @ + 1])

\* a variant of pontuar_blocos: a pick of deck B costs the block nothing
RECURSIVE pontuar_blocos_b_free(_, _, _, _, _)
pontuar_blocos_b_free(dados, i, r, num_tentativas, num_blocos) ==
    IF i >= Len(dados) \/ r.erro # "None" THEN r
    ELSE IF i < num_tentativas
    THEN LET tentativas_por_bloco == num_tentativas \div num_blocos
         IN  IF tentativas_por_bloco = 0
             THEN [r EXCEPT !.erro = "ZeroDivisionError"]
             ELSE LET bloco == i \div tentativas_por_bloco
                      baralho == dados[i + 1].baralho
                  IN  pontuar_blocos_b_free(dados, i + 1,
                        IF bloco < num_blocos
                        THEN IF baralho \in {"C", "D"}
                             THEN [r EXCEPT !.pontuacoes_bloco[bloco + 1] = @ + 1]
                             ELSE IF baralho \in {"A"}
                             THEN [r EXCEPT !.pontuacoes_bloco[bloco + 1] = @ - 1]
                             ELSE r
                        ELSE r,
                        num_tentativas, num_blocos)
    ELSE pontuar_blocos_b_free(dados, i + 1, r, num_tentativas, num_blocos)

\* "for i, dado in enumerate(self.dados):" from the 0-based index i on; r holds
\* pontuacoes_bloco and erro
RECURSIVE pontuar_blocos(_, _, _, _, _)
pontuar_blocos(dados, i, r, num_tentativas, num_blocos) ==
    IF i >= Len(dados) \/ r.erro # "None" THEN r
    ELSE IF i < num_tentativas
    THEN LET tentativas_por_bloco == num_tentativas \div num_blocos
         IN  IF tentativas_por_bloco = 0
             THEN [r EXCEPT !.erro = "ZeroDivisionError"]
             ELSE LET bloco == i \div tentativas_por_bloco
                      baralho == dados[i + 1].baralho
                  IN  pontuar_blocos(dados, i + 1,
                        IF bloco < num_blocos
                        THEN IF baralho \in {"C", "D"}
                             THEN [r EXCEPT !.pontuacoes_bloco[bloco + 1] = @ + 1]
                             ELSE IF baralho \in {"A", "B"}
                             THEN [r EXCEPT !.pontuacoes_bloco[bloco + 1] = @ - 1]
                             ELSE r
                        ELSE r,
                        num_tentativas, num_blocos)
    ELSE pontuar_blocos(dados, i + 1, r, num_tentativas, num_blocos)

\* a variant of _calcular_resultados_com: the net score has the sign reversed
_calcular_resultados_reversed(dados, num_tentativas, num_blocos) ==
    LET escolhas_baralho ==
            contar_escolhas(dados, [b \in {"A", "B", "C", "D"} |-> 0])
        vantajosos == escolhas_baralho["C"] + escolhas_baralho["D"]
        desvantajosos == escolhas_baralho["A"] + escolhas_baralho["B"]
    IN  pontuar_blocos(dados, 0,
                       [escolhas_baralho |-> escolhas_baralho,
                        pontuacao_liquida |-> desvantajosos - vantajosos,
                        pontuacoes_bloco |-> [k \in 1..num_blocos |-> 0],
                        erro |-> "None"],
                       num_tentativas, num_blocos)

\* _calcular_resultados with NUM_TENTATIVAS = num_tentativas and NUM_BLOCOS =
\* num_blocos
_calcular_resultados_com(dados, num_tentativas, num_blocos) ==
    LET escolhas_baralho ==
            contar_escolhas(dados, [b \in {"A", "B", "C", "D"} |-> 0])
        vantajosos == escolhas_baralho["C"] + escolhas_baralho["D"]
        desvantajosos == escolhas_baralho["A"] + escolhas_baralho["B"]
    IN  pontuar_blocos(dados, 0,
                       [escolhas_baralho |-> escolhas_baralho,
                        pontuacao_liquida |-> vantajosos - desvantajosos,
                        pontuacoes_bloco |-> [k \in 1..num_blocos |-> 0],
                        erro |-> "None"],
                       num_tentativas, num_blocos)

_calcular_resultados(dados) ==
    _calcular_resultados_com(dados, NUM_TENTATIVAS, NUM_BLOCOS)

(***************************************************************************)
(* The environment of an IGT session.                                      *)
(***************************************************************************)
\* the random draws of a session: embaralhar_baralhos is False (its default),
\* and at most one slot loses, the first of deck A or of deck D, by any of the
\* deck's loss values
DrawPosicoes == {<<"A", "B", "C", "D">>}

DrawPerdas ==
    {NoLoss} \cup
    {[NoLoss EXCEPT ![b][1] = v] : <<b, v>> \in
        UNION {{<<b, v>> : v \in BARALHOS[b].valores_perda} : b \in {"A", "D"}}}

\* where the pointer goes: the top left pixel of deck A, the bottom right pixel
\* of deck D, and a pixel inside the button of the instruction screen and of
\* the result screen (which lies in no deck)
OnDeckA ==
    LET r == _criar_retangulos_baralhos(<<"A", "B", "C", "D">>)["A"]
    IN  <<r.x, r.y>>

OnDeckD ==
    LET r == _criar_retangulos_baralhos(<<"A", "B", "C", "D">>)["D"]
    IN  <<r.x + r.w - 1, r.y + r.h - 1>>

OnButton == <<(LARGURA_TELA - 200) \div 2, ALTURA_TELA - 100>>

PointerPositions == {OnDeckA, OnDeckD, OnButton}

IGTKeys == {Quit, KeyDown("K_ESCAPE"), KeyDown("K_SPACE")}

NoCCT == [state |-> "not_created"]

InitIGT ==
    /\ experimento \in {IowaGamblingTask(posicoes, perdas) :
                            posicoes \in DrawPosicoes, perdas \in DrawPerdas}
    /\ experiment = NoCCT
    /\ events = <<>>
    /\ mouse = OnButton
    /\ now = 1
    /\ pc = "running"
    /\ persisted = <<>>
    /\ retorno = "None"

\* the pointer moves
MoveMouse ==
    /\ pc = "running"
    /\ \E p \in PointerPositions : p # mouse /\ mouse' = p
    /\ UNCHANGED <<experiment, experimento, events, now, pc, persisted, retorno>>

\* a mouse button goes down where the pointer is
Click ==
    /\ pc = "running"
    /\ Len(events) < MaxQueue
    /\ events' = Append(events, MouseDown(1, mouse))
    /\ UNCHANGED <<experiment, experimento, mouse, now, pc, persisted, retorno>>

\* what a pass of executar leaves behind: r is the session value at its end
Executado(r) ==
    /\ experimento' = Objeto(r)
    /\ pc' = IF r.crashed THEN "crashed" ELSE IF r.returned THEN "returned" ELSE pc
    /\ persisted' = IF r.saved THEN Append(persisted, r.saved_log) ELSE persisted
    /\ retorno' = r.retorno
    /\ UNCHANGED <<experiment, mouse, now>>

(***************************************************************************)
(* IowaGamblingTask.executar: one action per branch of the main loop.      *)
(***************************************************************************)
Instrucoes ==
    /\ pc = "running"
    /\ experimento.estado = "instrucoes"
    /\ Executado(executar_passo(Quadro(experimento), events, mouse, now))
    /\ events' = <<>>

Principal ==
    /\ pc = "running"
    /\ experimento.estado = "principal"
    /\ Executado(executar_passo(Quadro(experimento), events, mouse, now))
    /\ events' = <<>>

\* no event is polled during the feedback
Feedback ==
    /\ pc = "running"
    /\ experimento.estado = "feedback"
    /\ Executado(executar_passo(Quadro(experimento), <<>>, mouse, now))
    /\ UNCHANGED events

Resultados ==
    /\ pc = "running"
    /\ experimento.estado = "resultados"
    /\ Executado(executar_passo(Quadro(experimento), events, mouse, now))
    /\ events' = <<>>

NextIGT ==
    \/ Post(IGTKeys)
    \/ Click
    \/ MoveMouse
    \/ Tick(MaxTempo)
    \/ Instrucoes
    \/ Principal
    \/ Feedback
    \/ Resultados

SpecIGT == InitIGT /\ [][NextIGT]_vars

(***************************************************************************)
(* _calcular_resultados applied to the trial logs of up to MaxLog picks,   *)
(* under the settings of DrawConfiguracoes.                                *)
(***************************************************************************)
\* <<NUM_TENTATIVAS, NUM_BLOCOS>> as the evaluator may set them: the model's, a
\* divisible pair, and fewer trials than blocks
DrawConfiguracoes == {<<NUM_TENTATIVAS, NUM_BLOCOS>>, <<4, 2>>, <<2, 3>>}

InitAnalise ==
    /\ experimento \in {[estado |-> "analise", dados |-> <<>>,
                         configuracoes |-> c, resultados |-> None] :
                            c \in DrawConfiguracoes}
    /\ experiment = NoCCT
    /\ events = <<>>
    /\ mouse = <<0, 0>>
    /\ now = 1
    /\ pc = "running"
    /\ persisted = <<>>
    /\ retorno = "None"

\* one more pick enters the log
Registrar ==
    /\ experimento.resultados = None
    /\ Len(experimento.dados) < MaxLog
    /\ \E baralho \in Decks :
          experimento' = [experimento EXCEPT !.dados =
              Append(@, [tentativa |-> Len(experimento.dados) + 1,
                         baralho |-> baralho])]
    /\ UNCHANGED <<experiment, events, mouse, now, pc, persisted, retorno>>

Calcular ==
    /\ experimento.resultados = None
    /\ experimento' = [experimento EXCEPT !.resultados =
          _calcular_resultados_com(experimento.dados,
                                   experimento.configuracoes[1],
                                   experimento.configuracoes[2])]
    /\ UNCHANGED <<experiment, events, mouse, now, pc, persisted, retorno>>

NextAnalise ==
    \/ Registrar
    \/ Calcular

SpecAnalise == InitAnalise /\ [][NextAnalise]_vars

\* the wall clock goes on while a feedback is on screen, whatever the bound on
\* the rest of the session
TickFeedback ==
    /\ pc = "running"
    /\ experimento.estado = "feedback"
    /\ now - experimento.tempo_inicio_feedback < DURACAO_FEEDBACK
    /\ now' = now + 1
    /\ UNCHANGED <<experiment, experimento, events, mouse, pc, persisted, retorno>>

NextIGTLive ==
    \/ Post(IGTKeys)
    \/ Click
    \/ MoveMouse
    \/ Tick(MaxTempoLive)
    \/ TickFeedback
    \/ Instrucoes
    \/ Principal
    \/ Feedback
    \/ Resultados

\* the session starts with the schedule in which no slot loses
InitIGTLive ==
    /\ InitIGT
    /\ experimento.resultados_baralhos = _gerar_resultados_baralhos(NoLoss)

\* a session in which time passes and the main loop keeps iterating (the loop
\* of executar has no blocking call, and relogio.tick(60) returns)
SpecIGTLive ==
    InitIGTLive /\ [][NextIGTLive]_vars /\ WF_vars(TickFeedback) /\ WF_vars(Feedback)

(***************************************************************************)
(* Properties.  A polling pass is a step of a handler that took a          *)
(* non-empty batch from the queue: the batch is the queue before the step. *)
(***************************************************************************)
Polls == pc = "running" /\ now' = now /\ events # <<>> /\ events' = <<>>

AbortEvents == {Quit, KeyDown("K_ESCAPE")}

\* the IGT session value after the first i events of the pending batch have
\* been handled in the current pass
IGTAfter(i) ==
    executar_corpo(Quadro(experimento), SubSeq(events, 1, i), mouse, now)

\* C1: in the IGT, when an abort signal (ESC or window close) is processed
\* after exactly k picks have been recorded, 1 <= k < NUM_TENTATIVAS, the main
\* loop stops, _salvar_dados runs exactly once on a log of exactly k records,
\* and no fault is raised.
C1_AbortPersistsKRecords ==
    [][(Polls /\ experimento.estado = "principal")
        => \A i \in 1..Len(events) :
             LET before == IGTAfter(i - 1)
                 k == Len(before.dados)
             IN  (events[i] \in AbortEvents /\ ~before.crashed
                    /\ 1 <= k /\ k < NUM_TENTATIVAS)
                 => /\ pc' = "returned"
                    /\ Len(persisted') = 1
                    /\ Len(persisted'[1]) = k]_vars

\* C5: in the IGT, an abort event handed to the handler of any phase stops the
\* session with the trial log it had when the abort was handed over: no record
\* is appended after it.
C5_NoRecordAfterAbort ==
    [][Polls
        => \A i \in 1..Len(events) :
             LET before == IGTAfter(i - 1)
             IN  (events[i] \in AbortEvents /\ ~before.crashed)
                 => /\ pc' = "returned"
                    /\ experimento'.dados = before.dados]_vars

\* the CCT session value after the first i events of the pending batch have
\* been handled by run_trial in the current pass
CCTAfter(i) == run_trial(Frame(experiment), SubSeq(events, 1, i), now)

\* C2: every exit of the CCT process (ESC or window close, in any state) comes
\* after save_results has written the trial log accumulated so far.
C2_ExitPersistsLog ==
    pc = "exited" => /\ Len(persisted) = 1
                     /\ persisted[1] = experiment.trial_results

\* the first event of the batch that show_break reacts to, None when there is none
FirstSignal(batch) ==
    LET signals == {i \in 1..Len(batch) :
                      batch[i] \in {Quit, KeyDown("K_SPACE"), KeyDown("K_ESCAPE")}}
    IN  IF signals = {} THEN None
        ELSE batch[CHOOSE i \in signals : \A j \in signals : i <= j]

\* C3: in the break state the controller holds until SPACE or ESC; on ESC the
\* state after show_break is "end", and only on SPACE is it "fixation".
C3_BreakAbortEnds ==
    [][(Polls /\ experiment.state = "break")
        => /\ FirstSignal(events) = KeyDown("K_ESCAPE")
                => experiment'.state = "end"
           /\ experiment'.state = "fixation"
                => FirstSignal(events) = KeyDown("K_SPACE")
           /\ FirstSignal(events) = None => experiment'.state = "break"]_vars

\* C4: the state "end" is absorbing: once it has been set, no later event,
\* clicks queued in the same batch included, changes the state or appends a
\* trial record.
C4_EndAbsorbing ==
    [][/\ (Polls /\ experiment.state = "trial")
            => \A i \in 0..Len(events) :
                 (CCTAfter(i).state = "end" /\ ~CCTAfter(i).exited)
                 => /\ experiment'.state = "end"
                    /\ experiment'.trial_results = CCTAfter(i).trial_results
       /\ experiment.state = "end"
            => /\ experiment'.state = "end"
               /\ experiment'.trial_results = experiment.trial_results]_vars

\* C6: in every reachable state 0 <= current_trial < trials per block and
\* 0 <= current_block <= NUM_BLOCKS.
C6_CountersInRange ==
    /\ 0 <= experiment.current_trial
    /\ experiment.current_trial < NUM_REPEATED_CONFIGS + NUM_NOVEL_CONFIGS
    /\ 0 <= experiment.current_block
    /\ experiment.current_block <= NUM_BLOCKS

\* the items of the configuration on screen whose hit circle (radius
\* STIM_SIZE / 2 around the centre of the item's cell) holds the point
ClickedItems(point) ==
    LET stimuli == experiment.current_config.stimuli
        cx(i) == GRID_START_X + stimuli[i].position[1] * CELL_SIZE + CELL_SIZE \div 2
        cy(i) == GRID_START_Y + stimuli[i].position[2] * CELL_SIZE + CELL_SIZE \div 2
    IN  {i \in 1..Len(stimuli) :
            4 * ((point[1] - cx(i)) * (point[1] - cx(i))
                    + (point[2] - cy(i)) * (point[2] - cy(i)))
                <= STIM_SIZE * STIM_SIZE}

\* the number of trials begun before the one the session value is at
TrialIndex(s) ==
    s.current_block * (NUM_REPEATED_CONFIGS + NUM_NOVEL_CONFIGS) + s.current_trial

\* C7: in the trial state a left click inside the hit circle of an item appends
\* exactly one trial record and advances the trial; the record's is_correct is
\* TRUE exactly when the clicked item is the target, FALSE for a distractor.
C7_ItemClickRecorded ==
    [][(Polls /\ experiment.state = "trial")
        => /\ \A i \in 1..Len(events) :
                LET before == CCTAfter(i - 1)
                    after == CCTAfter(i)
                    hit == ClickedItems(events[i].pos)
                IN  (/\ ~before.exited
                     /\ events[i].type = "MOUSEBUTTONDOWN"
                     /\ events[i].button = 1
                     /\ hit # {})
                    => /\ Len(after.trial_results) = Len(before.trial_results) + 1
                       /\ SubSeq(after.trial_results, 1, Len(before.trial_results))
                            = before.trial_results
                       /\ after.trial_results[Len(after.trial_results)].is_correct
                            = (\E h \in hit :
                                 experiment.current_config.stimuli[h].stim_type = "T")
                       /\ TrialIndex(after) = TrialIndex(before) + 1
           /\ experiment' = Object(CCTAfter(Len(events)))]_vars

\* a click on a distractor has been recorded
C7_DistractorClickLogged ==
    /\ experiment.state \in {"fixation", "break", "end"}
    /\ \E n \in 1..Len(experiment.trial_results) :
          ~experiment.trial_results[n].is_correct

\* C8: in the trial state a click outside the hit region of every item leaves
\* the whole session state unchanged (state, current_block, current_trial,
\* current_config, trial_start_time, trial_results): no log entry is added.
C8_MissIgnored ==
    [][(Polls /\ experiment.state = "trial")
        => /\ \A i \in 1..Len(events) :
                (/\ ~CCTAfter(i - 1).exited
                 /\ events[i].type = "MOUSEBUTTONDOWN"
                 /\ ClickedItems(events[i].pos) = {})
                => CCTAfter(i) = CCTAfter(i - 1)
           /\ (\A i \in 1..Len(events) :
                 /\ events[i].type = "MOUSEBUTTONDOWN"
                 /\ ClickedItems(events[i].pos) = {})
                => /\ experiment' = experiment
                   /\ UNCHANGED <<pc, persisted>>]_vars

\* a trial is on screen and the clicks waiting in the queue all miss the items
C8_MissPending ==
    /\ pc = "running"
    /\ experiment.state = "trial"
    /\ events # <<>>
    /\ \A i \in 1..Len(events) :
          /\ events[i].type = "MOUSEBUTTONDOWN"
          /\ events[i].button = 1
          /\ ClickedItems(events[i].pos) = {}

CCTEdges ==
    {<<"welcome", "fixation">>, <<"fixation", "trial">>, <<"trial", "fixation">>,
     <<"trial", "break">>, <<"trial", "end">>, <<"break", "fixation">>}

IGTEdges ==
    {<<"instrucoes", "principal">>, <<"principal", "feedback">>,
     <<"feedback", "principal">>, <<"principal", "resultados">>}

\* C10: every change of the IGT phase tag is one of instrucoes->principal,
\* principal->feedback, feedback->principal, principal->resultados; the pick
\* that brings tentativa_atual to NUM_TENTATIVAS leads to "resultados", every
\* earlier pick leads to "feedback", and "resultados" is never left.
C10_PhaseEdges ==
    [][/\ experimento'.estado # experimento.estado
            => <<experimento.estado, experimento'.estado>> \in IGTEdges
       /\ experimento.estado = "resultados" => experimento'.estado = "resultados"
       /\ (Polls /\ experimento.estado = "principal")
            => /\ \A i \in 1..Len(events) :
                    LET before == IGTAfter(i - 1)
                        after == IGTAfter(i)
                    IN  after.tentativa_atual # before.tentativa_atual
                        => /\ after.tentativa_atual = before.tentativa_atual + 1
                           /\ after.estado =
                                IF after.tentativa_atual = NUM_TENTATIVAS
                                THEN "resultados" ELSE "feedback"
               /\ experimento' = Objeto(IGTAfter(Len(events)))
       /\ experimento'.tentativa_atual # experimento.tentativa_atual
            => /\ experimento.estado = "principal"
               /\ experimento'.estado =
                    IF experimento'.tentativa_atual = NUM_TENTATIVAS
                    THEN "resultados" ELSE "feedback"]_vars

\* the last pick was made after a feedback had run its time, and the results
\* are on screen
C10_ResultsAfterFeedback ==
    /\ experimento.estado = "resultados"
    /\ experimento.tentativa_atual = NUM_TENTATIVAS
    /\ \E n \in 1..Len(experimento.dados) :
          experimento.dados[n].tempo_reacao >= DURACAO_FEEDBACK

\* C11: a feedback ends by itself, without consuming an input event, at the
\* first loop iteration at which the time since the pick is >= DURACAO_FEEDBACK
\* and never before; so feedback always eventually leads to the main phase
\* (in a session that is running: executar has not returned).
C11_FeedbackTimesOut ==
    /\ [][(pc = "running" /\ experimento.estado = "feedback")
            => IF now - experimento.tempo_inicio >= DURACAO_FEEDBACK
               THEN experimento' # experimento
                    => /\ experimento'.estado = "principal"
                       /\ experimento'.dados = experimento.dados
                       /\ UNCHANGED <<events, now, pc, persisted>>
               ELSE experimento' = experimento /\ pc' = pc]_vars
    /\ (pc = "running" /\ experimento.estado = "feedback")
            ~> (experimento.estado = "principal")

\* a feedback has run its time and the main phase is back for the next pick
C11_BackAfterFeedback ==
    /\ experimento.estado = "principal"
    /\ experimento.tentativa_atual >= 1
    /\ experimento.feedback_dados = None
    /\ now - experimento.tempo_inicio = DURACAO_FEEDBACK

\* the time of the last recorded response: the trial's start plus the recorded
\* response time (meaningful until the next trial is prepared)
LastResponseAt ==
    experiment.trial_start_time
        + experiment.trial_results[Len(experiment.trial_results)].response_time

\* C12: the CCT leaves the fixation state only when the time elapsed since it
\* entered fixation is >= fixation_duration; on that expiry, and only then, it
\* generates the next configuration, sets a fresh trial_start_time and enters
\* "trial", and the fixation timestamp is reset, so that the next fixation is
\* timed from its own entry.
C12_FixationTimed ==
    [][/\ (experiment.state = "fixation" /\ experiment' # experiment)
            => IF /\ experiment.fixation_start_time # 0
                  /\ now - experiment.fixation_start_time >= fixation_duration
               THEN /\ experiment'.state = "trial"
                    /\ experiment'.trial_start_time = now
                    /\ experiment'.fixation_start_time = 0
                    /\ experiment'.current_config # None
                    /\ Len(experiment.trial_results) > 0
                         => now - LastResponseAt >= fixation_duration
               ELSE /\ experiment.fixation_start_time = 0
                    /\ experiment' = [experiment EXCEPT !.fixation_start_time = now]
       /\ experiment.state = "fixation"
            => experiment'.state \in {"fixation", "trial"}
       /\ (experiment.state # "not_created"
             /\ experiment'.current_config # experiment.current_config)
            => experiment.state = "fixation" /\ experiment'.state = "trial"
       /\ (experiment.state # "not_created" /\ experiment'.state # "fixation")
            => experiment'.fixation_start_time = 0]_vars

\* a trial that began after a second fixation, which lasted its full time from
\* the response that ended the trial before it
C12_TrialAfterSecondFixation ==
    /\ experiment.state = "trial"
    /\ Len(experiment.trial_results) = 1
    /\ experiment.trial_start_time
         >= 2 + experiment.trial_results[1].response_time + fixation_duration
    /\ experiment.fixation_start_time = 0

\* C13: the reaction time of a record is the time between the entry into the
\* main phase for that trial and the pick; for the second and later trials it
\* does not include the preceding feedback.  The main phase is entered when the
\* feedback has lasted DURACAO_FEEDBACK, at the earliest, so a pick made in a
\* main phase that followed a feedback has a reaction time of at most the time
\* since that moment.
C13_ReactionFromPhaseEntry ==
    [][(/\ Polls
        /\ experimento.estado = "principal"
        /\ experimento.tentativa_atual >= 1
        /\ Len(experimento'.dados) > Len(experimento.dados))
        => experimento'.dados[Len(experimento.dados) + 1].tempo_reacao
             <= now - (experimento.tempo_inicio_feedback + DURACAO_FEEDBACK)]_vars

\* the sum of liquido over the first n records of a trial log
RECURSIVE SumLiquido(_, _)
SumLiquido(dados, n) ==
    IF n = 0 THEN 0 ELSE SumLiquido(dados, n - 1) + dados[n].liquido

\* C14: dinheiro = DINHEIRO_INICIAL + the sum of liquido over dados; each
\* record's dinheiro_total is DINHEIRO_INICIAL + the sum of liquido of that
\* record and the earlier ones; each liquido is the precomputed net of the
\* chosen deck at that trial's index.
C14_Balance ==
    experimento.estado # "nao_criado"
    => /\ experimento.dinheiro
            = DINHEIRO_INICIAL + SumLiquido(experimento.dados, Len(experimento.dados))
       /\ \A n \in 1..Len(experimento.dados) :
            LET dado == experimento.dados[n]
            IN  /\ dado.dinheiro_total
                     = DINHEIRO_INICIAL + SumLiquido(experimento.dados, n)
                /\ dado.liquido = experimento.resultados_baralhos[dado.baralho][n][3]
                /\ dado.liquido = dado.recompensa - dado.perda
                /\ dado.tentativa = n

\* two picks in the log, one of them with a loss
C14_LossInLog ==
    /\ experimento.estado = "feedback"
    /\ Len(experimento.dados) = 2
    /\ \E n \in 1..2 : experimento.dados[n].perda > 0
    /\ experimento.dinheiro < DINHEIRO_INICIAL

\* the outcome schedule is well formed: NUM_TENTATIVAS tuples for each of the
\* decks A-D, each <<reward, loss, net>> with the deck's reward, a loss that is
\* 0 or one of the deck's loss values, and net = reward - loss
ScheduleWellFormed(schedule) ==
    /\ DOMAIN schedule = {"A", "B", "C", "D"}
    /\ \A b \in DOMAIN schedule :
         /\ Len(schedule[b]) = NUM_TENTATIVAS
         /\ \A i \in 1..Len(schedule[b]) :
              /\ schedule[b][i][1] = BARALHOS[b].recompensa
              /\ schedule[b][i][2] \in {0} \cup BARALHOS[b].valores_perda
              /\ schedule[b][i][3] = schedule[b][i][1] - schedule[b][i][2]

\* C15: the outcome schedule is fixed at construction: it is well formed, and
\* no operation of the session modifies it, so a lookup of (deck, i) gives the
\* same tuple at any two points of a session.
C15_ScheduleFixed ==
    /\ [](experimento.estado # "nao_criado"
            => ScheduleWellFormed(experimento.resultados_baralhos))
    /\ [][experimento.estado # "nao_criado"
            => experimento'.resultados_baralhos = experimento.resultados_baralhos]_vars

\* the session is over, and the losing slot of the schedule was looked up
C15_LossLookedUp ==
    /\ experimento.estado = "resultados"
    /\ Len(experimento.dados) = NUM_TENTATIVAS
    /\ \E n \in 1..Len(experimento.dados) :
         /\ experimento.dados[n].perda > 0
         /\ experimento.resultados_baralhos[experimento.dados[n].baralho][n]
              = <<experimento.dados[n].recompensa, experimento.dados[n].perda,
                  experimento.dados[n].liquido>>

\* C16: the repeated configurations are generated once and never regenerated
\* or mutated: repeated_configs[i] has config_id = i and is_repeated = True,
\* and on any two trials on which it is presented its items (positions, types,
\* rotations) are the same.
C16_RepeatedConfigsStable ==
    /\ [](experiment.state # "not_created"
            => /\ \A i \in 1..Len(experiment.repeated_configs) :
                    /\ experiment.repeated_configs[i].config_id = i - 1
                    /\ experiment.repeated_configs[i].is_repeated
               /\ (experiment.current_config # None
                     /\ experiment.current_config.is_repeated)
                    => experiment.current_config
                         = experiment.repeated_configs[
                               experiment.current_config.config_id + 1]
               /\ \A n \in 1..Len(experiment.trial_results) :
                    LET r == experiment.trial_results[n]
                    IN  r.is_repeated
                        => r.target_position
                             = experiment.repeated_configs[r.configuration_id + 1]
                                 .target.position)
    /\ [][experiment.state # "not_created"
            => experiment'.repeated_configs = experiment.repeated_configs]_vars

\* the same repeated configuration was presented in two blocks
C16_PresentedTwice ==
    \E m, n \in 1..Len(experiment.trial_results) :
        /\ experiment.trial_results[m].is_repeated
        /\ experiment.trial_results[n].is_repeated
        /\ experiment.trial_results[m].block < experiment.trial_results[n].block
        /\ experiment.trial_results[m].configuration_id
             = experiment.trial_results[n].configuration_id
        /\ experiment.trial_results[m].target_position
             = experiment.trial_results[n].target_position

\* a configuration has NUM_ITEMS stimuli on pairwise distinct cells of the
\* grid, exactly one of them a "T", which is its target, and every rotation is
\* one of 0, 90, 180, 270
ConfigurationWellFormed(config) ==
    /\ Len(config.stimuli) = NUM_ITEMS
    /\ \A i \in 1..Len(config.stimuli) :
         /\ config.stimuli[i].position[1] \in 0..(GRID_SIZE - 1)
         /\ config.stimuli[i].position[2] \in 0..(GRID_SIZE - 1)
         /\ config.stimuli[i].rotation \in {0, 90, 180, 270}
         /\ config.stimuli[i].stim_type \in {"T", "L"}
    /\ \A i, j \in 1..Len(config.stimuli) :
         i # j => config.stimuli[i].position # config.stimuli[j].position
    /\ Cardinality({i \in 1..Len(config.stimuli) :
                      config.stimuli[i].stim_type = "T"}) = 1
    /\ \E i \in 1..Len(config.stimuli) :
         config.stimuli[i].stim_type = "T" /\ config.stimuli[i] = config.target

\* C17: every Configuration held in current_config or repeated_configs is well
\* formed (and so is every Configuration that generate can build on the grid).
C17_ConfigurationsWellFormed ==
    experiment.state # "not_created"
    => /\ \A i \in 1..Len(experiment.repeated_configs) :
            ConfigurationWellFormed(experiment.repeated_configs[i])
       /\ experiment.current_config # None
            => ConfigurationWellFormed(experiment.current_config)
       /\ experiment.state = "welcome"
            => \A config \in Configuration(0, TRUE, grid_positions, ROTATIONS) :
                 ConfigurationWellFormed(config)

\* a novel configuration is on screen
C17_NovelOnScreen ==
    /\ experiment.state = "trial"
    /\ experiment.current_config # None
    /\ ~experiment.current_config.is_repeated
    /\ experiment.current_config # experiment.repeated_configs[1]

Picks(dados, decks, indices) ==
    Cardinality({i \in indices : i < Len(dados) /\ dados[i + 1].baralho \in decks})

\* C19: for every trial log (for which it returns), _calcular_resultados gives
\* per-deck counts equal to the number of records of each deck and
\* pontuacao_liquida = (count of C + count of D) - (count of A + count of B);
\* the picks C, C, D, A give 2.
C19_NetScore ==
    (/\ experimento.estado = "analise"
     /\ experimento.resultados # None
     /\ experimento.resultados.erro = "None")
    => LET dados == experimento.dados
           all == 0..(Len(dados) - 1)
           r == experimento.resultados
       IN  /\ \A b \in {"A", "B", "C", "D"} :
                r.escolhas_baralho[b] = Picks(dados, {b}, all)
           /\ r.pontuacao_liquida
                = Picks(dados, {"C", "D"}, all) - Picks(dados, {"A", "B"}, all)
           /\ [n \in 1..Len(dados) |-> dados[n].baralho] = <<"C", "C", "D", "A">>
                => r.pontuacao_liquida = 2

\* the results of the picks C, C, D, A under the settings of the model
C19_ExampleComputed ==
    /\ experimento.estado = "analise"
    /\ experimento.configuracoes = <<NUM_TENTATIVAS, NUM_BLOCOS>>
    /\ Len(experimento.dados) = 4
    /\ [n \in 1..4 |-> experimento.dados[n].baralho] = <<"C", "C", "D", "A">>
    /\ experimento.resultados # None
    /\ experimento.resultados.erro = "None"
    /\ experimento.resultados.escolhas_baralho["C"] = 2

\* C20: the record at log index i belongs to block floor(i / (NUM_TENTATIVAS /
\* NUM_BLOCOS)), whose score gets +1 for a C or D pick and -1 for an A or B
\* pick; records whose block index would be >= NUM_BLOCOS count in no block;
\* and the computation never faults.
C20_BlockScores ==
    (experimento.estado = "analise" /\ experimento.resultados # None)
    => /\ experimento.resultados.erro = "None"
       /\ LET dados == experimento.dados
              num_tentativas == experimento.configuracoes[1]
              num_blocos == experimento.configuracoes[2]
              per_block == num_tentativas \div num_blocos
              members(b) == {i \in 0..(Len(dados) - 1) : i \div per_block = b}
          IN  /\ Len(experimento.resultados.pontuacoes_bloco) = num_blocos
              /\ \A b \in 0..(num_blocos - 1) :
                   experimento.resultados.pontuacoes_bloco[b + 1]
                     = Picks(dados, {"C", "D"}, members(b))
                         - Picks(dados, {"A", "B"}, members(b))

(***************************************************************************)
(* The analysis of save_results: pandas over the trial log. Floats are     *)
(* exact fractions num/den; the report holds the numbers the f-strings     *)
(* print.                                                                  *)
(***************************************************************************)
NaN == [type |-> "nan"]

Ratio(num, den) == [num |-> num, den |-> den]

\* a - b of two floats, NaN when either is
minus(a, b) ==
    IF a = NaN \/ b = NaN THEN NaN
    ELSE Ratio(a.num * b.den - b.num * a.den, a.den * b.den)

RECURSIVE sum_response_time(_)
sum_response_time(df) ==
    IF df = <<>> THEN 0
    ELSE Head(df).response_time + sum_response_time(Tail(df))

\* df['response_time'].mean(): NaN over no row
mean(df) == IF df = <<>> THEN NaN ELSE Ratio(sum_response_time(df), Len(df))

\* a variant of correct: every row counts
correct_any(df) == df

\* results_df[results_df['is_correct']]
correct(df) ==
    LET is_correct(row) == row.is_correct
    IN  SelectSeq(df, is_correct)

\* the row of "analysis" for (block, is_repeated): the rows of the group, which
\* groupby leaves out when no correct row falls in it
group(df, block, is_repeated) ==
    LET in_group(row) == row.block = block /\ row.is_repeated = is_repeated
    IN  SelectSeq(correct(df), in_group)

\* "...['response_time'].values[0] if i in ...['block'].values else 0"
group_time(df, i, is_repeated) ==
    IF group(df, i, is_repeated) = <<>> THEN Ratio(0, 1)
    ELSE mean(group(df, i, is_repeated))

\* the try block of save_results over the log: erro is the exception the except
\* clause catches, written tells whether the report file was opened, rows are
\* the lines of the table written before the block ended
analysis(trial_results) ==
    IF trial_results = <<>>
    THEN \* pd.DataFrame([]) has no column: results_df['is_correct'] raises
         [erro |-> "KeyError", written |-> FALSE, rows |-> <<>>,
          accuracy |-> NaN, mean_repeated |-> NaN, mean_novel |-> NaN,
          contextual_effect |-> NaN]
    ELSE LET repeated(row) == row.is_repeated
             novel(row) == ~row.is_repeated
             mean_repeated == mean(SelectSeq(correct(trial_results), repeated))
             mean_novel == mean(SelectSeq(correct(trial_results), novel))
         IN  [erro |-> "None", written |-> TRUE,
              rows |-> [i \in 1..NUM_BLOCKS |->
                          [block |-> i,
                           rep_time |-> group_time(trial_results, i, TRUE),
                           nov_time |-> group_time(trial_results, i, FALSE),
                           diff |-> minus(group_time(trial_results, i, FALSE),
                                          group_time(trial_results, i, TRUE))]],
              accuracy |-> Ratio(Len(correct(trial_results)) * 100,
                                 Len(trial_results)),
              mean_repeated |-> mean_repeated,
              mean_novel |-> mean_novel,
              contextual_effect |-> minus(mean_novel, mean_repeated)]

(***************************************************************************)
(* The analysis over the logs a session can leave: records in session      *)
(* order, response times in milliseconds.                                  *)
(***************************************************************************)
DrawResponseTimes == {500, 700, 900, 1100}

InitAnalysis ==
    /\ experiment = [state |-> "analysis", trial_results |-> <<>>,
                     report |-> None]
    /\ experimento = NoIGT
    /\ events = <<>>
    /\ mouse = <<0, 0>>
    /\ now = 1
    /\ pc = "running"
    /\ persisted = <<>>
    /\ retorno = "None"

\* one more trial enters the log (record_trial, then next_trial)
RecordTrial ==
    /\ experiment.report = None
    /\ Len(experiment.trial_results) <
           (NUM_REPEATED_CONFIGS + NUM_NOVEL_CONFIGS) * NUM_BLOCKS
    /\ \E is_repeated \in BOOLEAN, is_correct \in BOOLEAN,
          response_time \in DrawResponseTimes :
          experiment' = [experiment EXCEPT !.trial_results =
              Append(@,
                [block |-> (Len(experiment.trial_results)
                             \div (NUM_REPEATED_CONFIGS + NUM_NOVEL_CONFIGS)) + 1,
                 trial |-> (Len(experiment.trial_results)
                             % (NUM_REPEATED_CONFIGS + NUM_NOVEL_CONFIGS)) + 1,
                 is_repeated |-> is_repeated,
                 response_time |-> response_time,
                 is_correct |-> is_correct])]
    /\ UNCHANGED <<experimento, events, mouse, now, pc, persisted, retorno>>

\* show_end calls save_results on the log
SaveResults ==
    /\ experiment.report = None
    /\ experiment' = [experiment EXCEPT
                         !.report = analysis(experiment.trial_results)]
    /\ persisted' = Append(persisted, experiment.trial_results)
    /\ UNCHANGED <<experimento, events, mouse, now, pc, retorno>>

NextAnalysis ==
    \/ RecordTrial
    \/ SaveResults

SpecAnalysis == InitAnalysis /\ [][NextAnalysis]_vars

\* the rows of the log that are correct, of the condition and, with block # 0,
\* of the block
Qualifying(log, block, is_repeated) ==
    {k \in 1..Len(log) : /\ log[k].is_correct
                         /\ log[k].is_repeated = is_repeated
                         /\ block # 0 => log[k].block = block}

RECURSIVE TotalTime(_, _)
TotalTime(log, indices) ==
    IF indices = {} THEN 0
    ELSE LET k == CHOOSE k \in indices : TRUE
         IN  log[k].response_time + TotalTime(log, indices \ {k})

\* the float q is total / count
IsMean(q, total, count) == q # NaN /\ q.num * count = total * q.den

\* C21: the reaction-time means of the report are taken over correct records
\* only: the contextual-cueing effect is the mean over the correct novel
\* records minus the mean over the correct repeated ones, each block's
\* repeated/novel mean is the mean over that block's correct records of the
\* condition, the accuracy is correct count / total count; two correct repeated
\* records of 500 and 700 ms and two correct novel ones of 900 and 1100 ms give
\* 600 ms, 1000 ms, an effect of 400 ms and an accuracy of 100%.
C21_CorrectOnlyMeans ==
    LET log == experiment.trial_results
        report == experiment.report
        rep == Qualifying(log, 0, TRUE)
        nov == Qualifying(log, 0, FALSE)
        times(indices) == {log[k].response_time : k \in indices}
    IN  (experiment.state = "analysis" /\ report # None /\ report.written) =>
          /\ rep # {} =>
               IsMean(report.mean_repeated, TotalTime(log, rep), Cardinality(rep))
          /\ nov # {} =>
               IsMean(report.mean_novel, TotalTime(log, nov), Cardinality(nov))
          /\ (rep # {} /\ nov # {}) =>
               IsMean(report.contextual_effect,
                      TotalTime(log, nov) * Cardinality(rep)
                         - TotalTime(log, rep) * Cardinality(nov),
                      Cardinality(nov) * Cardinality(rep))
          /\ \A i \in 1..NUM_BLOCKS :
               /\ Qualifying(log, i, TRUE) # {} =>
                    IsMean(report.rows[i].rep_time,
                           TotalTime(log, Qualifying(log, i, TRUE)),
                           Cardinality(Qualifying(log, i, TRUE)))
               /\ Qualifying(log, i, FALSE) # {} =>
                    IsMean(report.rows[i].nov_time,
                           TotalTime(log, Qualifying(log, i, FALSE)),
                           Cardinality(Qualifying(log, i, FALSE)))
          /\ IsMean(report.accuracy,
                    100 * Cardinality({k \in 1..Len(log) : log[k].is_correct}),
                    Len(log))
          /\ ( /\ Len(log) = 4
               /\ \A k \in 1..4 : log[k].is_correct
               /\ Cardinality(rep) = 2 /\ times(rep) = {500, 700}
               /\ Cardinality(nov) = 2 /\ times(nov) = {900, 1100} ) =>
                 /\ IsMean(report.mean_repeated, 600, 1)
                 /\ IsMean(report.mean_novel, 1000, 1)
                 /\ IsMean(report.contextual_effect, 400, 1)
                 /\ IsMean(report.accuracy, 100, 1)

\* the log of two correct repeated records (500, 700 ms) and two correct novel
\* ones (900, 1100 ms) has been analysed
C21_ExampleAnalysed ==
    LET log == experiment.trial_results
        report == experiment.report
    IN  /\ experiment.state = "analysis" /\ report # None /\ report.written
        /\ Len(log) = 4
        /\ \A k \in 1..4 : log[k].is_correct
        /\ {log[k].response_time : k \in Qualifying(log, 0, TRUE)} = {500, 700}
        /\ {log[k].response_time : k \in Qualifying(log, 0, FALSE)} = {900, 1100}
        /\ IsMean(report.contextual_effect, 400, 1)

\* C22: the aggregation degrades gracefully: for every trial log (an empty
\* one, one without a correct record, one where a (block, condition) group has
\* no correct record) save_results writes a report with one row for each block
\* 1..NUM_BLOCKS, a group without qualifying records shows the sentinel 0, and
\* no fault occurs or ends the report early.
C22_ReportComplete ==
    LET log == experiment.trial_results
        report == experiment.report
    IN  (experiment.state = "analysis" /\ report # None) =>
          /\ report.erro = "None"
          /\ report.written
          /\ DOMAIN report.rows = 1..NUM_BLOCKS
          /\ \A i \in 1..NUM_BLOCKS :
               /\ report.rows[i].block = i
               /\ Qualifying(log, i, TRUE) = {} =>
                    report.rows[i].rep_time = Ratio(0, 1)
               /\ Qualifying(log, i, FALSE) = {} =>
                    report.rows[i].nov_time = Ratio(0, 1)

(***************************************************************************)
(* The two programs side by side: a run is a session of tarefa3.py or a    *)
(* session of tarefa4.py.                                                  *)
(***************************************************************************)
InitPrograms == InitCCT \/ InitIGT

NextPrograms ==
    \/ experimento = NoIGT /\ NextCCT
    \/ experiment = NoCCT /\ NextIGT

SpecPrograms == InitPrograms /\ [][NextPrograms]_vars

IsPrefix(s, t) == Len(s) <= Len(t) /\ SubSeq(t, 1, Len(s)) = s

\* C23: the trial log of both experiments (trial_results, dados) is
\* append-only: every operation leaves it unchanged or appends exactly one
\* record at the end, so that the log of a state is a prefix of the log of
\* every later state.
C23_AppendOnly ==
    [][/\ experiment # NoCCT =>
            /\ IsPrefix(experiment.trial_results, experiment'.trial_results)
            /\ (Polls /\ experiment.state = "trial") =>
                  /\ experiment' = Object(CCTAfter(Len(events)))
                  /\ \A i \in 1..Len(events) :
                        /\ IsPrefix(CCTAfter(i - 1).trial_results,
                                    CCTAfter(i).trial_results)
                        /\ Len(CCTAfter(i).trial_results)
                             <= Len(CCTAfter(i - 1).trial_results) + 1
       /\ experimento # NoIGT =>
            /\ IsPrefix(experimento.dados, experimento'.dados)
            /\ Polls =>
                  /\ experimento'.dados = IGTAfter(Len(events)).dados
                  /\ \A i \in 1..Len(events) :
                        /\ IsPrefix(IGTAfter(i - 1).dados, IGTAfter(i).dados)
                        /\ Len(IGTAfter(i).dados)
                             <= Len(IGTAfter(i - 1).dados) + 1]_vars

\* a second record has entered the log of a session of tarefa3.py
C23_SecondRecord ==
    /\ experiment # NoCCT
    /\ Len(experiment.trial_results) = 2

(***************************************************************************)
(* IowaGamblingTask.__init__ over the deck tables the head of tarefa4.py   *)
(* can hold, one action for each deck of the loop of                       *)
(* _gerar_resultados_baralhos. freq_perda and the outcomes of              *)
(* random.random() are in hundredths.                                      *)
(***************************************************************************)
\* self.baralhos.items(): the decks in the order of the dict
OrdemBaralhos == <<"A", "B", "C", "D">>

\* the tables: the one of the repository, deck D without loss values (with a
\* loss frequency of 0.1 and of 0), deck B without loss values and a loss
\* frequency of 1
DrawBaralhos ==
    {BARALHOS,
     [BARALHOS EXCEPT !["D"].valores_perda = {}],
     [BARALHOS EXCEPT !["D"].valores_perda = {}, !["D"].freq_perda = 0],
     [BARALHOS EXCEPT !["B"].valores_perda = {}, !["B"].freq_perda = 100]}

\* outcomes of random.random()
DrawUniform == {5, 95}

\* outcomes of random.choice(valores_perda): the smallest and the largest value
DrawChoice(valores_perda) ==
    {v \in valores_perda : \/ \A w \in valores_perda : v <= w
                           \/ \A w \in valores_perda : v >= w}

\* what one pass of the inner loop can draw: the loss, 0 when
\* "random.random() < propriedades['freq_perda']" is false, IndexError when
\* random.choice has nothing to choose from
Sorteios(propriedades) ==
    {[erro |-> "None", perda |-> 0] :
        u \in {u \in DrawUniform : ~(u < propriedades.freq_perda)}}
    \cup
    UNION {IF propriedades.valores_perda = {}
           THEN {[erro |-> "IndexError", perda |-> 0]}
           ELSE {[erro |-> "None", perda |-> v] :
                    v \in DrawChoice(propriedades.valores_perda)} :
             u \in {u \in DrawUniform : u < propriedades.freq_perda}}

\* the list of one deck for the draws sorteios[1..NUM_TENTATIVAS]
gerar_resultados(propriedades, sorteios) ==
    IF \E i \in 1..NUM_TENTATIVAS : sorteios[i].erro # "None"
    THEN [erro |-> "IndexError", resultados |-> <<>>]
    ELSE [erro |-> "None",
          resultados |-> [i \in 1..NUM_TENTATIVAS |->
              LET recompensa == propriedades.recompensa
                  perda == sorteios[i].perda
              IN  <<recompensa, perda, recompensa - perda>>]]

InitConstrucao ==
    /\ experimento \in {[estado |-> "construcao", baralhos |-> baralhos,
                         resultados |-> <<>>] : baralhos \in DrawBaralhos}
    /\ experiment = NoCCT
    /\ events = <<>>
    /\ mouse = <<0, 0>>
    /\ now = 1
    /\ pc = "running"
    /\ persisted = <<>>
    /\ retorno = "None"

\* "for baralho, propriedades in self.baralhos.items():", one deck
GerarResultados ==
    /\ pc = "running"
    /\ experimento.estado = "construcao"
    /\ Len(experimento.resultados) < Len(OrdemBaralhos)
    /\ LET baralho == OrdemBaralhos[Len(experimento.resultados) + 1]
           propriedades == experimento.baralhos[baralho]
       IN  \E sorteios \in [1..NUM_TENTATIVAS -> Sorteios(propriedades)] :
              LET r == gerar_resultados(propriedades, sorteios)
              IN  IF r.erro # "None"
                  THEN /\ pc' = "crashed"
                       /\ UNCHANGED experimento
                  ELSE /\ experimento' = [experimento EXCEPT !.resultados =
                                             Append(@, r.resultados)]
                       /\ UNCHANGED pc
    /\ UNCHANGED <<experiment, events, mouse, now, persisted, retorno>>

\* "return resultados" and the rest of __init__: the session starts
Construir ==
    /\ pc = "running"
    /\ experimento.estado = "construcao"
    /\ Len(experimento.resultados) = Len(OrdemBaralhos)
    /\ experimento' = [experimento EXCEPT !.estado = "instrucoes"]
    /\ UNCHANGED <<experiment, events, mouse, now, pc, persisted, retorno>>

NextConstrucao ==
    \/ GerarResultados
    \/ Construir

SpecConstrucao == InitConstrucao /\ [][NextConstrucao]_vars

\* C24: a deck table with a deck that has no loss value and a loss frequency
\* above 0 is always rejected during construction: for every outcome of the
\* random draws the generation of the schedule fails and the session never
\* reaches the instructions or the main phase.
C24_MalformedRejected ==
    (\E b \in Decks : /\ experimento.baralhos[b].valores_perda = {}
                      /\ experimento.baralhos[b].freq_perda > 0)
        => experimento.estado \notin {"instrucoes", "principal"}

\* C25: in the main phase of the IGT a click produces a pick if and only if
\* the coordinates of the click event lie inside the rectangle of a deck, and
\* the deck recorded is the one whose rectangle contains them, also when the
\* event is handled after the pointer has moved; a click outside every
\* rectangle changes no state.
C25_ClickCoordinatesDecide ==
    [][(Polls /\ experimento # NoIGT /\ experimento.estado = "principal")
        => \A i \in 1..Len(events) :
             LET before == IGTAfter(i - 1)
                 after == IGTAfter(i)
                 baralho == DeckAt(before, events[i].pos)
             IN  (/\ events[i].type = "MOUSEBUTTONDOWN"
                  /\ ~before.crashed
                  /\ before.tentativa_atual < NUM_TENTATIVAS)
                 => IF baralho = "None"
                    THEN Objeto(after) = Objeto(before)
                    ELSE /\ Len(after.dados) = Len(before.dados) + 1
                         /\ after.dados[Len(after.dados)].baralho = baralho]_vars

\* C26: every lookup of _processar_escolha in the schedule uses an index in
\* [0, NUM_TENTATIVAS), also when one polled batch holds several clicks:
\* tentativa_atual never exceeds NUM_TENTATIVAS and no pick is processed once
\* tentativa_atual = NUM_TENTATIVAS.
C26_LookupInRange ==
    [][(Polls /\ experimento # NoIGT /\ experimento.estado = "principal")
        => /\ \A i \in 1..Len(events) :
                LET before == IGTAfter(i - 1)
                IN  (/\ events[i].type = "MOUSEBUTTONDOWN"
                     /\ ~before.crashed
                     /\ DeckAt(before, mouse) # "None")
                    => before.tentativa_atual < NUM_TENTATIVAS
           /\ experimento'.tentativa_atual <= NUM_TENTATIVAS
           /\ pc' # "crashed"]_vars

\* C27: in the CCT at most one record is appended per entry into the state
\* "trial": between two consecutive records the controller passes through a
\* fixation and a prepare_trial call (so that no step of the controller, which
\* is at most one pass over "trial", appends two records).
C27_OneRecordPerTrialEntry ==
    [][experiment # NoCCT
        => Len(experiment'.trial_results)
              <= Len(experiment.trial_results) + 1]_vars

\* C28: in the IGT every pick is separated from the next by a completed
\* feedback: no step of the controller appends two records, and between two
\* consecutive records of dados the controller was in the feedback for at
\* least DURACAO_FEEDBACK.
C28_FeedbackBetweenPicks ==
    [][experimento # NoIGT
        => /\ Len(experimento'.dados) <= Len(experimento.dados) + 1
           /\ (Len(experimento.dados) >= 1
               /\ Len(experimento'.dados) > Len(experimento.dados))
                 => now >= experimento.tempo_inicio_feedback
                              + DURACAO_FEEDBACK]_vars

\* C29: the counter and the log of the IGT agree: in every reachable state
\* tentativa_atual = len(dados), and the i-th record of dados (from 1) has
\* tentativa = i and carries the tuple resultados_baralhos[its deck][i-1].
C29_CounterMatchesLog ==
    experimento # NoIGT
    => /\ experimento.tentativa_atual = Len(experimento.dados)
       /\ \A i \in 1..Len(experimento.dados) :
            LET dado == experimento.dados[i]
            IN  /\ dado.tentativa = i
                /\ <<dado.recompensa, dado.perda, dado.liquido>>
                     = experimento.resultados_baralhos[dado.baralho][i]

\* the second pick was of a deck whose first slot loses and whose second slot
\* does not
C29_SecondSlotPicked ==
    /\ experimento # NoIGT
    /\ experimento.tentativa_atual = 2
    /\ experimento.dados[2].perda = 0
    /\ experimento.resultados_baralhos[experimento.dados[2].baralho][1][2] > 0

\* C30: every record of the CCT log has block in 1..NUM_BLOCKS and trial in
\* 1..(NUM_REPEATED_CONFIGS + NUM_NOVEL_CONFIGS); the (block, trial) pairs of
\* consecutive records increase in lexicographic order without a gap, so the
\* log never holds more than total_trials records.
C30_BlockTrialSequence ==
    experiment # NoCCT
    => LET log == experiment.trial_results
           trials == NUM_REPEATED_CONFIGS + NUM_NOVEL_CONFIGS
       IN  /\ \A k \in 1..Len(log) :
                /\ log[k].block \in 1..NUM_BLOCKS
                /\ log[k].trial \in 1..trials
           /\ \A k \in 1..(Len(log) - 1) :
                \/ /\ log[k + 1].block = log[k].block
                   /\ log[k + 1].trial = log[k].trial + 1
                \/ /\ log[k].trial = trials
                   /\ log[k + 1].block = log[k].block + 1
                   /\ log[k + 1].trial = 1
           /\ Len(log) <= experiment.total_trials

\* C31: within one block of the CCT each repeated configuration id appears in
\* at most one record, and only in the record whose trial number within the
\* block is that id + 1; a block's log so has at most NUM_REPEATED_CONFIGS
\* repeated records.
C31_RepeatedOncePerBlock ==
    experiment # NoCCT
    => LET log == experiment.trial_results
       IN  /\ \A n \in 1..Len(log) :
                log[n].is_repeated => log[n].trial = log[n].configuration_id + 1
           /\ \A m, n \in 1..Len(log) :
                (/\ m # n
                 /\ log[m].is_repeated /\ log[n].is_repeated
                 /\ log[m].block = log[n].block)
                => log[m].configuration_id # log[n].configuration_id
           /\ \A b \in 1..NUM_BLOCKS :
                Cardinality({n \in 1..Len(log) :
                                log[n].block = b /\ log[n].is_repeated})
                   <= NUM_REPEATED_CONFIGS

\* C32: with no abort signal and a participant who supplies the awaited input
\* (SPACE in welcome and break, a click on an item in trial) the CCT session
\* reaches "end", and at that point exactly
\* total_trials = (NUM_REPEATED_CONFIGS + NUM_NOVEL_CONFIGS) * NUM_BLOCKS
\* records have been logged and current_block = NUM_BLOCKS.
C32_EndAfterTotalTrials ==
    (experiment # NoCCT /\ experiment.state = "end")
    => /\ Len(experiment.trial_results)
            = (NUM_REPEATED_CONFIGS + NUM_NOVEL_CONFIGS) * NUM_BLOCKS
       /\ Len(experiment.trial_results) = experiment.total_trials
       /\ experiment.current_block = NUM_BLOCKS

\* C33: the IGT is in the phase "resultados" if and only if exactly
\* NUM_TENTATIVAS records have been logged; executar returns True exactly when
\* the session ended with len(dados) = NUM_TENTATIVAS, and False for every
\* aborted session with fewer records; when the session has ended the data
\* have been persisted if the log is non-empty, and not if it is empty.
C33_ResultsReturnPersist ==
    experimento # NoIGT
    => /\ experimento.estado = "resultados"
            <=> Len(experimento.dados) = NUM_TENTATIVAS
       /\ pc \in {"returned", "crashed"}
            => /\ Len(experimento.dados) = NUM_TENTATIVAS
                    => pc = "returned" /\ retorno = "True"
               /\ Len(experimento.dados) < NUM_TENTATIVAS
                    => pc = "returned" /\ retorno = "False"
               /\ Len(experimento.dados) > 0
                    => persisted = <<experimento.dados>>
               /\ Len(experimento.dados) = 0 => persisted = <<>>

RECURSIVE SumBlocos(_, _)
SumBlocos(pontuacoes_bloco, n) ==
    IF n = 0 THEN 0 ELSE pontuacoes_bloco[n] + SumBlocos(pontuacoes_bloco, n - 1)

\* C34: for a complete IGT log of NUM_TENTATIVAS records, NUM_TENTATIVAS
\* divisible by NUM_BLOCOS, the block scores of _calcular_resultados add up to
\* pontuacao_liquida and each lies in
\* [-(NUM_TENTATIVAS/NUM_BLOCOS), +(NUM_TENTATIVAS/NUM_BLOCOS)]; for a partial
\* log the block scores add up to the net score of the records logged.
C34_BlockScoresSum ==
    LET dados == experimento.dados
        num_tentativas == experimento.configuracoes[1]
        num_blocos == experimento.configuracoes[2]
        r == experimento.resultados
    IN  (/\ experimento.estado = "analise"
         /\ r # None
         /\ num_tentativas % num_blocos = 0
         /\ Len(dados) <= num_tentativas)
        => /\ r.erro = "None"
           /\ SumBlocos(r.pontuacoes_bloco, num_blocos) = r.pontuacao_liquida
           /\ SumBlocos(r.pontuacoes_bloco, num_blocos)
                = Picks(dados, {"C", "D"}, 0..(Len(dados) - 1))
                    - Picks(dados, {"A", "B"}, 0..(Len(dados) - 1))
           /\ \A k \in 1..num_blocos :
                /\ r.pontuacoes_bloco[k] >= -(num_tentativas \div num_blocos)
                /\ r.pontuacoes_bloco[k] <= num_tentativas \div num_blocos

\* a complete log of 4 picks in 2 blocks was scored, the first block at the
\* top of its range and the second, with a pick of deck B, at the bottom
C34_ExtremesScored ==
    /\ experimento.estado = "analise"
    /\ experimento.resultados # None
    /\ experimento.configuracoes = <<4, 2>>
    /\ Len(experimento.dados) = 4
    /\ experimento.dados[3].baralho = "B"
    /\ experimento.resultados.pontuacoes_bloco = <<2, -2>>
    /\ experimento.resultados.pontuacao_liquida = 0

====
